---- MODULE Spec2Model ----
(***************************************************************************)
(* RailGate Monitor, src/train_processor.py: TrainDataProcessor.           *)
(*                                                                         *)
(* Strings that the code parses, formats or compares ("HH:MM") are         *)
(* sequences of character codes, so that split/int/strftime/strptime and   *)
(* the lexicographic order of str are computed, not assumed.  A datetime   *)
(* is the number of seconds since 00:00:00 of the evaluation date (day 0); *)
(* instants of the previous day are negative.                              *)
(***************************************************************************)
EXTENDS Integers, Sequences, FiniteSets, TLC

VARIABLES
    sample_trains,        \* self.sample_trains: sequence of TrainSchedule records
    alternative_routes,   \* self.alternative_routes: sequence of Route records
    is_running,           \* self.is_running
    ret,                  \* the call that has returned and whose result the caller
                          \* holds: [op, now, ok, value]; now is what
                          \* datetime.datetime.now() read, ok = FALSE when it raised
    calls,                \* number of optimize_routes passes run so far
    pc,                   \* where the program stands: "main", or the statement of
                          \* start_processing that runs next, or how it was left
    snapshot,             \* the file processed_data.json
    sync_log              \* the record that the last sync_with_backend call logged

vars == <<sample_trains, alternative_routes, is_running, ret, calls, pc, snapshot, sync_log>>

----------------------------------------------------------------------------
(* Bounds of the model *)

MaxTrains == 2      \* longest train list drawn by InitSchedule
MaxRoutes == 2      \* longest route list drawn by InitRoutes
MaxCalls == 2       \* optimize_routes passes per behaviour

----------------------------------------------------------------------------
(* str and datetime *)

\* the literal "HH:MM" as it is written in the source
hhmm(h, m) == <<48 + (h \div 10), 48 + (h % 10), 58, 48 + (m \div 10), 48 + (m % 10)>>

\* datetime(day 0, h, m, s)
hms(h, m, s) == h * 3600 + m * 60 + s

\* str.split(sep)
RECURSIVE split(_, _)
split(s, sep) ==
    IF \A i \in 1..Len(s) : s[i] # sep
    THEN <<s>>
    ELSE LET k == CHOOSE i \in 1..Len(s) :
                      s[i] = sep /\ \A j \in 1..(i - 1) : s[j] # sep
         IN  <<SubSeq(s, 1, k - 1)>> \o split(SubSeq(s, k + 1, Len(s)), sep)

\* int(str) succeeds on a non-empty run of decimal digits
is_int(s) == Len(s) > 0 /\ \A i \in 1..Len(s) : s[i] \in 48..57

RECURSIVE to_int(_)
to_int(s) ==
    IF Len(s) = 0 THEN 0
    ELSE to_int(SubSeq(s, 1, Len(s) - 1)) * 10 + (s[Len(s)] - 48)

\* arrival_hour, arrival_minute = map(int, arrival_time.split(':')), and the
\* range check of datetime.replace; ok = FALSE when either raises ValueError
parse_arrival(s) ==
    LET parts == split(s, 58)
    IN  IF Len(parts) # 2 \/ ~is_int(parts[1]) \/ ~is_int(parts[2])
        THEN [ok |-> FALSE, hour |-> 0, minute |-> 0]
        ELSE [ok     |-> to_int(parts[1]) \in 0..23 /\ to_int(parts[2]) \in 0..59,
              hour   |-> to_int(parts[1]),
              minute |-> to_int(parts[2])]

\* dt.replace(hour=h, minute=m, second=0, microsecond=0): the date is kept
replace(dt, h, m) == (dt - (dt % 86400)) + h * 3600 + m * 60

\* datetime.timedelta(minutes=n)
timedelta(n) == n * 60

\* dt.strftime('%H:%M')
strftime(dt) ==
    LET sod == dt % 86400
        h   == sod \div 3600
        m   == (sod % 3600) \div 60
    IN  <<48 + (h \div 10), 48 + (h % 10), 58, 48 + (m \div 10), 48 + (m % 10)>>

\* datetime.strptime(s, '%H:%M'), applied to strings strftime produced
strptime(s) ==
    LET parts == split(s, 58)
    IN  [hour |-> to_int(parts[1]), minute |-> to_int(parts[2])]

\* a < b on str: lexicographic by character code
RECURSIVE str_less(_, _)
str_less(a, b) ==
    IF Len(b) = 0 THEN FALSE
    ELSE IF Len(a) = 0 THEN TRUE
    ELSE IF a[1] < b[1] THEN TRUE
    ELSE IF a[1] > b[1] THEN FALSE
    ELSE str_less(Tail(a), Tail(b))

----------------------------------------------------------------------------
(* The data built by __init__ *)

TrainSchedule(number, arrival, departure, plat, rt, st, delay, duration, prio) ==
    [train_number |-> number, arrival_time |-> arrival, departure_time |-> departure,
     platform |-> plat, route |-> rt, status |-> st, delay_minutes |-> delay,
     gate_closure_duration |-> duration, priority |-> prio]

SampleTrains ==
    << TrainSchedule("EXP-12345", hhmm(14, 30), hhmm(14, 38), "3",
                     "Mumbai-Delhi Express", "ontime", 0, 8, "high"),
       TrainSchedule("LOC-67890", hhmm(14, 45), hhmm(14, 51), "1",
                     "Local Passenger Service", "delayed", 15, 8, "normal"),
       TrainSchedule("FRT-11111", hhmm(15, 15), hhmm(15, 27), "2",
                     "Freight Service", "approaching", 0, 12, "low"),
       TrainSchedule("EXP-22222", hhmm(15, 45), hhmm(15, 52), "4",
                     "Chennai-Kolkata Express", "ontime", 0, 8, "high"),
       TrainSchedule("PSG-33333", hhmm(16, 20), hhmm(16, 29), "1",
                     "Inter-city Passenger", "ontime", 0, 8, "normal") >>

\* distance_km and toll_cost are floats that no computation reads: kept as text
Route(id, nm, km, time, level, conditions, rec, toll) ==
    [route_id |-> id, name |-> nm, distance_km |-> km,
     additional_time_minutes |-> time, traffic_level |-> level,
     road_conditions |-> conditions, recommended |-> rec, toll_cost |-> toll]

InitialRoutes ==
    << Route("R001", "Highway Bypass", "8.2", 15, "medium", "good", FALSE, "25.0"),
       Route("R002", "City Center Route", "7.8", 12, "high", "fair", FALSE, "0.0"),
       Route("R003", "Industrial Zone", "9.1", 18, "low", "excellent", FALSE, "15.0"),
       Route("R004", "Bridge Road", "6.5", 8, "low", "good", TRUE, "10.0") >>

----------------------------------------------------------------------------
(* calculate_gate_closure_schedule *)

\* closure_window with the end of the closure counted from its start
closure_window_end_from_start(train, t) ==
    LET p                == parse_arrival(train.arrival_time)
        arrival_datetime == replace(t, p.hour, p.minute)
        closure_start    == arrival_datetime - timedelta(5)
        closure_end      == closure_start + timedelta(train.gate_closure_duration)
    IN  [train_number     |-> train.train_number,
         closure_start    |-> strftime(closure_start),
         closure_end      |-> strftime(closure_end),
         duration_minutes |-> train.gate_closure_duration + 5,
         priority         |-> train.priority,
         platform         |-> train.platform]

closure_window(train, t) ==
    LET p                == parse_arrival(train.arrival_time)
        arrival_datetime == replace(t, p.hour, p.minute)
        closure_start    == arrival_datetime - timedelta(5)
        closure_end      == arrival_datetime + timedelta(train.gate_closure_duration)
    IN  [train_number     |-> train.train_number,
         closure_start    |-> strftime(closure_start),
         closure_end      |-> strftime(closure_end),
         duration_minutes |-> train.gate_closure_duration + 5,
         priority         |-> train.priority,
         platform         |-> train.platform]

\* the sort keyed by closure_end instead of closure_start
RECURSIVE sort_by_closure_end(_)
sort_by_closure_end(s) ==
    IF Len(s) = 0 THEN <<>>
    ELSE LET sorted == sort_by_closure_end(SubSeq(s, 1, Len(s) - 1))
             x      == s[Len(s)]
             k      == Cardinality({i \in 1..Len(sorted) :
                           ~str_less(x.closure_end, sorted[i].closure_end)})
         IN  SubSeq(sorted, 1, k) \o <<x>> \o SubSeq(sorted, k + 1, Len(sorted))

\* list.sort(key=lambda x: x['closure_start']): stable, ascending by the string
RECURSIVE sort_by_closure_start(_)
sort_by_closure_start(s) ==
    IF Len(s) = 0 THEN <<>>
    ELSE LET sorted == sort_by_closure_start(SubSeq(s, 1, Len(s) - 1))
             x      == s[Len(s)]
             k      == Cardinality({i \in 1..Len(sorted) :
                           ~str_less(x.closure_start, sorted[i].closure_start)})
         IN  SubSeq(sorted, 1, k) \o <<x>> \o SubSeq(sorted, k + 1, Len(sorted))

\* the loop raises ValueError at the first record whose arrival_time does not parse
schedule_raises(trains) ==
    \E i \in 1..Len(trains) : ~parse_arrival(trains[i].arrival_time).ok

closure_schedule(trains, t) ==
    IF schedule_raises(trains)
    THEN [ok |-> FALSE, value |-> <<>>]
    ELSE [ok    |-> TRUE,
          value |-> sort_by_closure_start(
                        [i \in 1..Len(trains) |-> closure_window(trains[i], t)])]

\* the call with the window's closure_start written back into the train record
calculate_gate_closure_schedule_in_place(t) ==
    /\ ret.op = "none"
    /\ LET r == closure_schedule(sample_trains, t)
       IN  ret' = [op |-> "calculate_gate_closure_schedule", now |-> t,
                   ok |-> r.ok, value |-> r.value]
    /\ sample_trains' =
           [i \in 1..Len(sample_trains) |->
               [sample_trains[i] EXCEPT
                   !.arrival_time = closure_window(sample_trains[i], t).closure_start]]
    /\ UNCHANGED <<alternative_routes, is_running, calls, pc, snapshot, sync_log>>

calculate_gate_closure_schedule(t) ==
    /\ ret.op = "none"
    /\ LET r == closure_schedule(sample_trains, t)
       IN  ret' = [op |-> "calculate_gate_closure_schedule", now |-> t,
                   ok |-> r.ok, value |-> r.value]
    /\ UNCHANGED <<sample_trains, alternative_routes, is_running, calls, pc, snapshot, sync_log>>

----------------------------------------------------------------------------
(* predict_wait_times *)

\* the thresholds tested with < instead of <=
get_wait_recommendation_strict(minutes_until, duration) ==
    IF minutes_until < 2 THEN "STOP - Gate closing very soon"
    ELSE IF minutes_until < 5 THEN "CAUTION - Consider alternative route"
    ELSE IF duration > 10 THEN "PLAN - Long closure expected, use alternative route"
    ELSE "PROCEED - Sufficient time to cross"

get_wait_recommendation(minutes_until, duration) ==
    IF minutes_until <= 2 THEN "STOP - Gate closing very soon"
    ELSE IF minutes_until <= 5 THEN "CAUTION - Consider alternative route"
    ELSE IF duration > 10 THEN "PLAN - Long closure expected, use alternative route"
    ELSE "PROCEED - Sufficient time to cross"

\* a call of the helper on its own
wait_recommendation(minutes_until, duration) ==
    /\ ret.op = "none"
    /\ ret' = [op |-> "_get_wait_recommendation", now |-> 0, ok |-> TRUE,
               value |-> [minutes_until      |-> minutes_until,
                          duration           |-> duration,
                          recommended_action |->
                              get_wait_recommendation(minutes_until, duration)]]
    /\ UNCHANGED <<sample_trains, alternative_routes, is_running, calls, pc, snapshot, sync_log>>

\* the instant rebuilt from the window's closure_start string on the date of t
closure_start_time(closure, t) ==
    replace(t, strptime(closure.closure_start).hour,
               strptime(closure.closure_start).minute)

wait_prediction(closure, t) ==
    LET minutes_until_closure == (closure_start_time(closure, t) - t) \div 60
    IN  [minutes_until_closure |-> minutes_until_closure,
         closure_duration      |-> closure.duration_minutes,
         total_wait_if_caught  |-> closure.duration_minutes,
         recommended_action    |->
             get_wait_recommendation(minutes_until_closure, closure.duration_minutes)]

\* d[k] = v on a dict, kept as its items in insertion order: an existing key
\* keeps its place and takes the new value
dict_set(d, k, v) ==
    IF \E i \in 1..Len(d) : d[i].key = k
    THEN [i \in 1..Len(d) |-> IF d[i].key = k THEN [key |-> k, value |-> v] ELSE d[i]]
    ELSE Append(d, [key |-> k, value |-> v])

\* the loop over the first n windows of the schedule
RECURSIVE predictions_of(_, _, _)
predictions_of(schedule, n, t) ==
    IF n = 0 THEN <<>>
    ELSE LET before  == predictions_of(schedule, n - 1, t)
             closure == schedule[n]
         IN  IF closure_start_time(closure, t) > t
             THEN dict_set(before, closure.train_number, wait_prediction(closure, t))
             ELSE before

wait_predictions(trains, t) ==
    LET sched == closure_schedule(trains, t)
    IN  IF ~sched.ok
        THEN [ok |-> FALSE, value |-> <<>>]
        ELSE [ok    |-> TRUE,
              value |-> predictions_of(sched.value, Len(sched.value), t)]

predict_wait_times(t) ==
    /\ ret.op = "none"
    /\ LET r == wait_predictions(sample_trains, t)
       IN  ret' = [op |-> "predict_wait_times", now |-> t, ok |-> r.ok, value |-> r.value]
    /\ UNCHANGED <<sample_trains, alternative_routes, is_running, calls, pc, snapshot, sync_log>>

----------------------------------------------------------------------------
(* analyze_traffic_patterns *)

\* the medium band tested before the high band
get_traffic_intensity_medium_first(hour) ==
    IF (10 <= hour /\ hour <= 16) \/ (19 <= hour /\ hour <= 21) THEN "medium"
    ELSE IF (7 <= hour /\ hour <= 9) \/ (17 <= hour /\ hour <= 19) THEN "high"
    ELSE "low"

get_traffic_intensity(hour) ==
    IF (7 <= hour /\ hour <= 9) \/ (17 <= hour /\ hour <= 19) THEN "high"
    ELSE IF (10 <= hour /\ hour <= 16) \/ (19 <= hour /\ hour <= 21) THEN "medium"
    ELSE "low"

\* the first band closed at 7, so that hour 7 is still "before morning rush"
get_recommended_window_through_seven(current_hour) ==
    IF current_hour <= 7 THEN "07:00-07:30 (Before morning rush)"
    ELSE IF 7 <= current_hour /\ current_hour <= 9 THEN "10:00-11:00 (After morning rush)"
    ELSE IF 9 < current_hour /\ current_hour < 17 THEN "Now - Good time to travel"
    ELSE IF 17 <= current_hour /\ current_hour <= 19 THEN "20:00-21:00 (After evening rush)"
    ELSE "Now - Light traffic period"

get_recommended_window(current_hour) ==
    IF current_hour < 7 THEN "07:00-07:30 (Before morning rush)"
    ELSE IF 7 <= current_hour /\ current_hour <= 9 THEN "10:00-11:00 (After morning rush)"
    ELSE IF 9 < current_hour /\ current_hour < 17 THEN "Now - Good time to travel"
    ELSE IF 17 <= current_hour /\ current_hour <= 19 THEN "20:00-21:00 (After evening rush)"
    ELSE "Now - Light traffic period"

\* datetime.now().hour
hour_of(t) == (t % 86400) \div 3600

\* Joint outcomes of the random.choice / random.randint draws of one analysis:
\* every value of each choice list and both ends of each randint range occur.
RandomDraws ==
    { [weather_impact         |-> <<"none", "light", "moderate", "heavy">>[k],
       special_events         |-> <<"None", "School hours", "Market day", "Festival">>[k],
       average_daily_closures |-> 20 + 5 * (k - 1),
       longest_closure_today  |-> IF k % 2 = 1 THEN 8 ELSE 15,
       busiest_platform       |-> <<"1", "2", "3", "4">>[k],
       on_time_percentage     |-> IF k <= 2 THEN 75 ELSE 95] : k \in 1..4 }

\* the analysis with the next hour classified from the current hour
traffic_analysis_same_hour(t, rnd) ==
    LET current_hour == hour_of(t)
    IN  [current_conditions |->
             [time              |-> strftime(t),
              traffic_intensity |-> get_traffic_intensity(current_hour),
              weather_impact    |-> rnd.weather_impact,
              special_events    |-> rnd.special_events],
         predictions |->
             [next_hour_traffic         |-> get_traffic_intensity(current_hour),
              recommended_travel_window |-> get_recommended_window(current_hour)],
         statistics |->
             [average_daily_closures |-> rnd.average_daily_closures,
              longest_closure_today  |-> rnd.longest_closure_today,
              busiest_platform       |-> rnd.busiest_platform,
              on_time_percentage     |-> rnd.on_time_percentage]]

traffic_analysis(t, rnd) ==
    LET current_hour == hour_of(t)
    IN  [current_conditions |->
             [time              |-> strftime(t),
              traffic_intensity |-> get_traffic_intensity(current_hour),
              weather_impact    |-> rnd.weather_impact,
              special_events    |-> rnd.special_events],
         predictions |->
             [next_hour_traffic         |-> get_traffic_intensity(current_hour + 1),
              recommended_travel_window |-> get_recommended_window(current_hour)],
         statistics |->
             [average_daily_closures |-> rnd.average_daily_closures,
              longest_closure_today  |-> rnd.longest_closure_today,
              busiest_platform       |-> rnd.busiest_platform,
              on_time_percentage     |-> rnd.on_time_percentage]]

analyze_traffic_patterns(t, rnd) ==
    /\ ret.op = "none"
    /\ ret' = [op |-> "analyze_traffic_patterns", now |-> t, ok |-> TRUE,
               value |-> traffic_analysis(t, rnd)]
    /\ UNCHANGED <<sample_trains, alternative_routes, is_running, calls, pc, snapshot, sync_log>>

----------------------------------------------------------------------------
(* generate_alerts *)

\* the delay threshold tested with >= instead of >
delay_alerts_from_10(trains, t) ==
    LET delayed == SelectSeq(trains,
                       LAMBDA train : train.status = "delayed" /\ train.delay_minutes >= 10)
    IN  [k \in 1..Len(delayed) |->
            [type         |-> "delay_alert",
             priority     |-> "high",
             message      |-> <<"Train", delayed[k].train_number, "delayed by",
                                delayed[k].delay_minutes, "minutes">>,
             timestamp    |-> t,
             train_number |-> delayed[k].train_number]]

delay_alerts(trains, t) ==
    LET delayed == SelectSeq(trains,
                       LAMBDA train : train.status = "delayed" /\ train.delay_minutes > 10)
    IN  [k \in 1..Len(delayed) |->
            [type         |-> "delay_alert",
             priority     |-> "high",
             message      |-> <<"Train", delayed[k].train_number, "delayed by",
                                delayed[k].delay_minutes, "minutes">>,
             timestamp    |-> t,
             train_number |-> delayed[k].train_number]]

\* the duration threshold tested with >= instead of >
long_closure_alerts_from_10(schedule, t) ==
    LET long == SelectSeq(schedule, LAMBDA closure : closure.duration_minutes >= 10)
    IN  [k \in 1..Len(long) |->
            [type          |-> "long_closure_alert",
             priority      |-> "medium",
             message       |-> <<"Extended gate closure expected:",
                                 long[k].duration_minutes, "minutes for",
                                 long[k].train_number>>,
             timestamp     |-> t,
             closure_start |-> long[k].closure_start]]

long_closure_alerts(schedule, t) ==
    LET long == SelectSeq(schedule, LAMBDA closure : closure.duration_minutes > 10)
    IN  [k \in 1..Len(long) |->
            [type          |-> "long_closure_alert",
             priority      |-> "medium",
             message       |-> <<"Extended gate closure expected:",
                                 long[k].duration_minutes, "minutes for",
                                 long[k].train_number>>,
             timestamp     |-> t,
             closure_start |-> long[k].closure_start]]

traffic_alerts(analysis, t) ==
    IF analysis.current_conditions.traffic_intensity = "high"
    THEN << [type      |-> "traffic_alert",
             priority  |-> "medium",
             message   |-> <<"High traffic intensity detected. Consider alternative routes.">>,
             timestamp |-> t] >>
    ELSE <<>>

\* the traffic check run before the two loops
alerts_of_traffic_first(trains, t, rnd) ==
    LET sched == closure_schedule(trains, t)
    IN  IF ~sched.ok
        THEN [ok |-> FALSE, value |-> <<>>]
        ELSE [ok    |-> TRUE,
              value |-> traffic_alerts(traffic_analysis(t, rnd), t)
                            \o delay_alerts(trains, t)
                            \o long_closure_alerts(sched.value, t)]

alerts_of(trains, t, rnd) ==
    LET sched == closure_schedule(trains, t)
    IN  IF ~sched.ok
        THEN [ok |-> FALSE, value |-> <<>>]
        ELSE [ok    |-> TRUE,
              value |-> delay_alerts(trains, t)
                            \o long_closure_alerts(sched.value, t)
                            \o traffic_alerts(traffic_analysis(t, rnd), t)]

generate_alerts(t, rnd) ==
    /\ ret.op = "none"
    /\ LET r == alerts_of(sample_trains, t, rnd)
       IN  ret' = [op |-> "generate_alerts", now |-> t, ok |-> r.ok, value |-> r.value]
    /\ UNCHANGED <<sample_trains, alternative_routes, is_running, calls, pc, snapshot, sync_log>>

----------------------------------------------------------------------------
(* optimize_routes *)

\* random.uniform(a, b), in tenths: the least value and the largest tenth below b
uniform(a, b) == {a, b - 1}

\* the draw that .get(route.traffic_level, 1.0) selects, in tenths
traffic_multipliers(level) ==
    IF level = "low" THEN uniform(8, 11)
    ELSE IF level = "medium" THEN uniform(10, 13)
    ELSE IF level = "high" THEN uniform(12, 18)
    ELSE {10}

\* the loop body with the two steps in the other order: the level is escalated
\* first and the multiplier is the draw for the escalated level (the same end
\* of the range as m is of the range of the old level)
adjust_route_level_first(route, m, current_hour) ==
    LET level == IF (7 <= current_hour /\ current_hour <= 9)
                        \/ (17 <= current_hour /\ current_hour <= 19)
                 THEN IF route.traffic_level = "low" THEN "medium"
                      ELSE IF route.traffic_level = "medium" THEN "high"
                      ELSE route.traffic_level
                 ELSE route.traffic_level
        least == \A x \in traffic_multipliers(route.traffic_level) : m <= x
        m2    == CHOOSE x \in traffic_multipliers(level) :
                     \A y \in traffic_multipliers(level) :
                         IF least THEN x <= y ELSE x >= y
    IN  [route EXCEPT
            !.additional_time_minutes = (route.additional_time_minutes * m2) \div 10,
            !.traffic_level = level]

\* one pass of the loop body over a Route object; m is the multiplier in tenths
adjust_route(route, m, current_hour) ==
    [route EXCEPT
        !.additional_time_minutes = (route.additional_time_minutes * m) \div 10,
        !.traffic_level =
            IF (7 <= current_hour /\ current_hour <= 9)
                   \/ (17 <= current_hour /\ current_hour <= 19)
            THEN IF route.traffic_level = "low" THEN "medium"
                 ELSE IF route.traffic_level = "medium" THEN "high"
                 ELSE route.traffic_level
            ELSE route.traffic_level]

\* the list left in the order of self.alternative_routes: the sort omitted
list_order(routes, n) == [i \in 1..n |-> i]

\* optimized_routes.sort(key=lambda r: r.additional_time_minutes), as the order
\* of the indices into the list: stable, ascending
RECURSIVE sort_by_additional_time(_, _)
sort_by_additional_time(routes, n) ==
    IF n = 0 THEN <<>>
    ELSE LET sorted == sort_by_additional_time(routes, n - 1)
             k      == Cardinality({i \in 1..Len(sorted) :
                           routes[sorted[i]].additional_time_minutes
                               <= routes[n].additional_time_minutes})
         IN  SubSeq(sorted, 1, k) \o <<n>> \o SubSeq(sorted, k + 1, Len(sorted))

\* the Route objects after the pass, in the order of self.alternative_routes:
\* optimized_routes is a shallow copy, so the objects are those of the processor
optimized_objects(routes, mult, t) ==
    LET adjusted == [i \in 1..Len(routes) |-> adjust_route(routes[i], mult[i], hour_of(t))]
        order    == sort_by_additional_time(adjusted, Len(adjusted))
    IN  [i \in 1..Len(routes) |->
            [adjusted[i] EXCEPT !.recommended = (order[1] = i)]]

\* the returned list: the same objects in sorted order
optimized_routes(routes, mult, t) ==
    LET objects == optimized_objects(routes, mult, t)
        order   == sort_by_additional_time(objects, Len(objects))
    IN  [k \in 1..Len(order) |-> objects[order[k]]]

\* the draws of one pass: one multiplier per route, from the range of its level
RECURSIVE Multipliers(_)
Multipliers(routes) ==
    IF Len(routes) = 0 THEN {<<>>}
    ELSE {Append(mult, m) :
              mult \in Multipliers(SubSeq(routes, 1, Len(routes) - 1)),
              m \in traffic_multipliers(routes[Len(routes)].traffic_level)}

optimize_routes(t) ==
    /\ ret.op = "none"
    /\ calls < MaxCalls
    /\ \E mult \in Multipliers(alternative_routes) :
          /\ alternative_routes' = optimized_objects(alternative_routes, mult, t)
          /\ ret' = [op |-> "optimize_routes", now |-> t, ok |-> TRUE,
                     value |-> optimized_routes(alternative_routes, mult, t)]
    /\ calls' = calls + 1
    /\ UNCHANGED <<sample_trains, is_running, pc, snapshot, sync_log>>

----------------------------------------------------------------------------
(* sync_with_backend *)

\* processed_data.json before the first write
NoFile == [state |-> "absent", data |-> <<>>]

\* no sync_with_backend call has logged yet
NoLog == <<>>

\* the list comprehension over the routes that optimize_routes returned
snapshot_routes(routes) ==
    [k \in 1..Len(routes) |->
        [id              |-> routes[k].route_id,
         name            |-> routes[k].name,
         distance        |-> <<"+", routes[k].distance_km, " km">>,
         additional_time |-> <<routes[k].additional_time_minutes, " min longer">>,
         traffic_level   |-> routes[k].traffic_level,
         recommended     |-> routes[k].recommended,
         toll_cost       |-> routes[k].toll_cost]]

\* The dict display: its values are computed in the order written
processed_data(trains, routes, mult, t, rnd) ==
    [timestamp             |-> t,
     gate_closure_schedule |-> closure_schedule(trains, t).value,
     optimized_routes      |-> snapshot_routes(optimized_routes(routes, mult, t)),
     wait_predictions      |-> wait_predictions(trains, t).value,
     traffic_analysis      |-> traffic_analysis(t, rnd)]

\* What the with-block can do: "ok", open() raises OSError ("open"), or
\* json.dump raises OSError after open() has truncated the file ("dump")
WriteOutcomes == {"ok", "open", "dump"}

\* the file after the with-block; a complete file is kept as the data it encodes
write_file(file, data, write) ==
    IF write = "ok" THEN [state |-> "complete", data |-> data]
    ELSE IF write = "dump" THEN [state |-> "partial", data |-> <<>>]
    ELSE file

\* sync_result without the except clause: the exception leaves the call
sync_result_uncaught(trains, routes, mult, t, rnd, write, file) ==
    IF schedule_raises(trains)
    THEN [ok |-> FALSE, value |-> FALSE, routes |-> routes, file |-> file,
          passes |-> 0, log |-> NoLog]
    ELSE [ok     |-> write = "ok",
          value  |-> write = "ok",
          routes |-> optimized_objects(routes, mult, t),
          file   |-> write_file(file, processed_data(trains, routes, mult, t, rnd), write),
          passes |-> 1,
          log    |-> IF write = "ok"
                     THEN <<"INFO", "Successfully synchronized data with backend">>
                     ELSE NoLog]

\* One call, as what it leaves behind.  The stages run in the order of the dict
\* display: the closure schedule, the route pass, the wait predictions, the
\* traffic analysis, then the write.  A stage that raises ends the try block:
\* the later stages do not run, the except clause logs and the call returns
\* False.  Only the closure schedule can raise (ValueError), and
\* predict_wait_times raises exactly when it does.  ok = FALSE would be an
\* exception that leaves the call.
sync_result(trains, routes, mult, t, rnd, write, file) ==
    IF schedule_raises(trains)
    THEN [ok |-> TRUE, value |-> FALSE, routes |-> routes, file |-> file,
          passes |-> 0,
          log |-> <<"ERROR", "Failed to sync with backend:", "ValueError">>]
    ELSE [ok     |-> TRUE,
          value  |-> write = "ok",
          routes |-> optimized_objects(routes, mult, t),
          file   |-> write_file(file, processed_data(trains, routes, mult, t, rnd), write),
          passes |-> 1,
          log    |-> IF write = "ok"
                     THEN <<"INFO", "Successfully synchronized data with backend">>
                     ELSE <<"ERROR", "Failed to sync with backend:", "OSError">>]

\* the call made by main()
sync_with_backend(t, rnd, write) ==
    /\ pc = "main"
    /\ ret.op = "none"
    /\ schedule_raises(sample_trains) \/ calls < MaxCalls
    /\ \E mult \in Multipliers(alternative_routes) :
          LET r == sync_result(sample_trains, alternative_routes, mult, t, rnd, write,
                               snapshot)
          IN  /\ alternative_routes' = r.routes
              /\ snapshot' = r.file
              /\ sync_log' = r.log
              /\ calls' = calls + r.passes
              /\ ret' = [op |-> "sync_with_backend", now |-> t, ok |-> r.ok,
                         value |-> r.value]
    /\ UNCHANGED <<sample_trains, is_running, pc>>

----------------------------------------------------------------------------
(* start_processing and stop_processing *)

\* the default of the parameter interval_seconds
interval_seconds == 30

\* Clock readings of the calls made in the loop: a rush hour and an off-peak hour
LoopClock == {hms(8, 30, 0), hms(12, 0, 0)}

\* self.is_running = True, up to the first test of the while loop
start_processing ==
    /\ pc = "main"
    /\ ret.op = "none"
    /\ is_running' = TRUE
    /\ pc' = "while"
    /\ UNCHANGED <<sample_trains, alternative_routes, ret, calls, snapshot, sync_log>>

\* the loop that exits as soon as a sync has logged an error
while_synced ==
    /\ pc = "while"
    /\ pc' = IF is_running /\ (sync_log = NoLog \/ sync_log[1] # "ERROR")
             THEN "sync" ELSE "returned"
    /\ UNCHANGED <<sample_trains, alternative_routes, is_running, ret, calls,
                   snapshot, sync_log>>

\* while self.is_running:
while_is_running ==
    /\ pc = "while"
    /\ pc' = IF is_running THEN "sync" ELSE "returned"
    /\ UNCHANGED <<sample_trains, alternative_routes, is_running, ret, calls,
                   snapshot, sync_log>>

\* self.sync_with_backend() in the try block: what it returns is dropped (ret
\* is not set), an exception that left it would be caught by except Exception
loop_sync(t, rnd, write) ==
    /\ pc = "sync"
    /\ schedule_raises(sample_trains) \/ calls < MaxCalls
    /\ \E mult \in Multipliers(alternative_routes) :
          LET r == sync_result(sample_trains, alternative_routes, mult, t, rnd, write,
                               snapshot)
          IN  /\ alternative_routes' = r.routes
              /\ snapshot' = r.file
              /\ sync_log' = r.log
              /\ calls' = calls + r.passes
              /\ pc' = IF r.ok THEN "alerts" ELSE "retry"
    /\ UNCHANGED <<sample_trains, is_running, ret>>

\* alerts = self.generate_alerts() and the loop that logs them: the list is a
\* local of the iteration (ret is not set); the ValueError of the closure
\* schedule is caught by except Exception
loop_alerts(t, rnd) ==
    /\ pc = "alerts"
    /\ pc' = IF alerts_of(sample_trains, t, rnd).ok THEN "sleep" ELSE "retry"
    /\ UNCHANGED <<sample_trains, alternative_routes, is_running, ret, calls,
                   snapshot, sync_log>>

\* time.sleep(interval_seconds) returns
sleep_interval ==
    /\ pc = "sleep"
    /\ pc' = "while"
    /\ UNCHANGED <<sample_trains, alternative_routes, is_running, ret, calls,
                   snapshot, sync_log>>

\* time.sleep(5) in the except Exception clause returns
sleep_retry ==
    /\ pc = "retry"
    /\ pc' = "while"
    /\ UNCHANGED <<sample_trains, alternative_routes, is_running, ret, calls,
                   snapshot, sync_log>>

\* the argument of the time.sleep call in progress, 0 when there is none
delay == IF pc = "sleep" THEN interval_seconds ELSE IF pc = "retry" THEN 5 ELSE 0

\* How far a sync_with_backend call can have come when Ctrl+C arrives: not yet
\* past the closure schedule, past the route pass, or inside json.dump
InterruptedAt == {"schedule", "routes", "dump"}

\* Ctrl+C: KeyboardInterrupt is raised in the statement that is running.  It is
\* not an Exception, so sync_with_backend does not catch it.  Raised in the try
\* block it reaches the except KeyboardInterrupt clause; raised in the while
\* test, in an except clause or in the handler itself it leaves start_processing.
KeyboardInterrupt ==
    \/ /\ pc = "sync"
       /\ \E t \in LoopClock : \E at \in InterruptedAt :
             IF at = "schedule" \/ schedule_raises(sample_trains)
             THEN UNCHANGED <<alternative_routes, calls, snapshot>>
             ELSE /\ calls < MaxCalls
                  /\ \E mult \in Multipliers(alternative_routes) :
                        alternative_routes' = optimized_objects(alternative_routes, mult, t)
                  /\ calls' = calls + 1
                  /\ snapshot' = IF at = "dump"
                                 THEN write_file(snapshot, <<>>, "dump")
                                 ELSE snapshot
       /\ pc' = "interrupt"
       /\ UNCHANGED <<sample_trains, is_running, ret, sync_log>>
    \/ /\ pc \in {"alerts", "sleep"}
       /\ pc' = "interrupt"
       /\ UNCHANGED <<sample_trains, alternative_routes, is_running, ret, calls,
                      snapshot, sync_log>>
    \/ /\ pc \in {"while", "retry", "interrupt"}
       /\ pc' = "raised"
       /\ UNCHANGED <<sample_trains, alternative_routes, is_running, ret, calls,
                      snapshot, sync_log>>

\* self.stop_processing(), called by the except KeyboardInterrupt clause
stop_processing ==
    /\ pc = "interrupt"
    /\ is_running' = FALSE
    /\ pc' = "while"
    /\ UNCHANGED <<sample_trains, alternative_routes, ret, calls, snapshot, sync_log>>

----------------------------------------------------------------------------
(* The processor from __init__ on: the one-shot calls of main() in any order *)

NoCall == [op |-> "none", now |-> 0, ok |-> TRUE, value |-> <<>>]

\* main() prints what a call returned and drops it before the next call
print_result ==
    /\ pc = "main"
    /\ ret.op # "none"
    /\ ret' = NoCall
    /\ UNCHANGED <<sample_trains, alternative_routes, is_running, calls, pc, snapshot, sync_log>>

\* Clock readings of the schedule calls: one per traffic band, and the seconds
\* around the 14:25 closure start of a 14:30 arrival
ScheduleClock ==
    {hms(h, 0, 0) : h \in {0, 8, 12, 19, 23}}
        \cup {hms(14, 19, 0), hms(14, 19, 30), hms(14, 23, 0),
              hms(14, 24, 30), hms(14, 25, 0), hms(14, 25, 30), hms(23, 59, 0)}

\* Clock readings of the traffic analysis: the first and last second of every hour
TrafficClock == {hms(h, 0, 0) : h \in 0..23} \cup {hms(h, 59, 59) : h \in 0..23}

\* Clock readings of the route passes: rush hours and an off-peak hour
RoutesClock == {hms(8, 30, 0), hms(12, 0, 0), hms(19, 0, 0)}

TrainNumbers == [i \in 1..Len(SampleTrains) |-> SampleTrains[i].train_number]

ArrivalTimes == {hhmm(0, 3), hhmm(14, 30), hhmm(23, 58)}

TrainInputs ==
    [arrival_time : ArrivalTimes,
     gate_closure_duration : {5, 8},
     delay : {<<"ontime", 15>>, <<"delayed", 10>>, <<"delayed", 15>>}]

RouteInputs ==
    [additional_time_minutes : {8, 12},
     traffic_level : {"low", "medium", "high"}]

\* __init__ with the sample data of the source
Init ==
    /\ sample_trains = SampleTrains
    /\ alternative_routes = InitialRoutes
    /\ is_running = FALSE
    /\ ret = NoCall
    /\ calls = 0
    /\ pc = "main"
    /\ snapshot = NoFile
    /\ sync_log = NoLog

\* __init__ with any list of at most MaxTrains well-formed train records
InitSchedule ==
    /\ \E n \in 0..MaxTrains : \E in \in [1..n -> TrainInputs] :
          sample_trains =
              [i \in 1..n |->
                  TrainSchedule(TrainNumbers[i], in[i].arrival_time, in[i].arrival_time,
                                "1", "Local Passenger Service", in[i].delay[1],
                                in[i].delay[2], in[i].gate_closure_duration, "normal")]
    /\ alternative_routes = InitialRoutes
    /\ is_running = FALSE
    /\ ret = NoCall
    /\ calls = 0
    /\ pc = "main"
    /\ snapshot = NoFile
    /\ sync_log = NoLog

\* __init__ with any list of at most MaxRoutes routes; as in the source, the
\* last route of the list starts as the recommended one
InitRoutes ==
    /\ sample_trains = SampleTrains
    /\ \E n \in 1..MaxRoutes : \E in \in [1..n -> RouteInputs] :
          alternative_routes =
              [i \in 1..n |->
                  Route(InitialRoutes[i].route_id, InitialRoutes[i].name,
                        InitialRoutes[i].distance_km, in[i].additional_time_minutes,
                        in[i].traffic_level, InitialRoutes[i].road_conditions, i = n,
                        InitialRoutes[i].toll_cost)]
    /\ is_running = FALSE
    /\ ret = NoCall
    /\ calls = 0
    /\ pc = "main"
    /\ snapshot = NoFile
    /\ sync_log = NoLog

NextSchedule ==
    \/ \E t \in ScheduleClock :
          \/ calculate_gate_closure_schedule(t)
          \/ predict_wait_times(t)
          \/ \E rnd \in RandomDraws : generate_alerts(t, rnd)
    \/ print_result

\* Arguments of the direct calls of _get_wait_recommendation
MinutesUntil == 0..8
Durations == {5, 10, 11, 15, 20}

Next ==
    \/ \E t \in TrafficClock : \E rnd \in RandomDraws : analyze_traffic_patterns(t, rnd)
    \/ \E t \in TrafficClock \cup ScheduleClock : predict_wait_times(t)
    \/ \E m \in MinutesUntil : \E d \in Durations : wait_recommendation(m, d)
    \/ \E t \in ScheduleClock : calculate_gate_closure_schedule(t)
    \/ \E t \in ScheduleClock : \E rnd \in RandomDraws : generate_alerts(t, rnd)
    \/ print_result

NextRoutes ==
    \/ \E t \in RoutesClock : optimize_routes(t)
    \/ print_result

\* an arrival_time that int() takes and datetime.replace refuses: hour 24
Malformed == <<50, 52, 58, 48, 48>>

\* arrival_time texts that raise ValueError: hour 24, and no colon ("14.30"), for
\* which the unpacking of the split fails
MalformedTimes == {Malformed, <<49, 52, 46, 51, 48>>}

\* __init__ with any list of at most MaxTrains train records of which at least
\* one has an arrival_time that does not parse
InitMalformed ==
    /\ \E n \in 1..MaxTrains : \E in \in [1..n -> ArrivalTimes \cup MalformedTimes] :
          /\ \E i \in 1..n : in[i] \in MalformedTimes
          /\ sample_trains =
                 [i \in 1..n |->
                     TrainSchedule(TrainNumbers[i], in[i], in[i], "1",
                                   "Local Passenger Service", "ontime", 0, 8, "normal")]
    /\ alternative_routes = InitialRoutes
    /\ is_running = FALSE
    /\ ret = NoCall
    /\ calls = 0
    /\ pc = "main"
    /\ snapshot = NoFile
    /\ sync_log = NoLog

\* The train lists of the loop: the first two records of the sample data, as
\* they are and with an arrival_time that does not parse
LoopTrains ==
    {SubSeq(SampleTrains, 1, 2),
     [SubSeq(SampleTrains, 1, 2) EXCEPT ![2].arrival_time = Malformed]}

\* The route list of the loop: the last two routes of the sample data
LoopRoutes == SubSeq(InitialRoutes, 3, 4)

\* The random draws of the calls made in the loop: the first and the last of
\* RandomDraws
LoopDraws == {rnd \in RandomDraws : rnd.weather_impact \in {"none", "heavy"}}

InitLoop ==
    /\ sample_trains \in LoopTrains
    /\ alternative_routes = LoopRoutes
    /\ is_running = FALSE
    /\ ret = NoCall
    /\ calls = 0
    /\ pc = "main"
    /\ snapshot = NoFile
    /\ sync_log = NoLog

\* the statements of the loop, without the interrupt
LoopStep ==
    \/ while_is_running
    \/ \E t \in LoopClock : \E rnd \in LoopDraws : \E write \in WriteOutcomes :
          loop_sync(t, rnd, write)
    \/ \E t \in LoopClock : \E rnd \in LoopDraws : loop_alerts(t, rnd)
    \/ sleep_interval
    \/ sleep_retry
    \/ stop_processing

NextLoop ==
    \/ start_processing
    \/ LoopStep
    \/ KeyboardInterrupt

\* main() calling sync_with_backend, any number of times
NextSync ==
    \/ \E t \in LoopClock : \E rnd \in LoopDraws : \E write \in WriteOutcomes :
          sync_with_backend(t, rnd, write)
    \/ print_result

SpecSchedule == InitSchedule /\ [][NextSchedule]_vars

Spec == Init /\ [][Next]_vars

SpecRoutes == InitRoutes /\ [][NextRoutes]_vars

SpecMalformed == InitMalformed /\ [][NextSchedule]_vars

SpecSync == InitLoop /\ [][NextSync]_vars

SpecLoop == InitLoop /\ [][NextLoop]_vars

\* LoopStep as the move of pc that it makes: a step of NextLoop is a LoopStep
\* exactly when it is a Proceed step, and Proceed is enabled exactly when
\* LoopStep is
Proceed ==
    /\ pc \in {"while", "sync", "alerts", "sleep", "retry", "interrupt"}
    /\ pc = "sync" => (schedule_raises(sample_trains) \/ calls < MaxCalls)
    /\ pc' \in {"while", "sync", "alerts", "sleep", "retry", "returned"} \ {pc}

\* The interpreter goes on to the next statement and every sleep ends; Ctrl+C
\* may or may not come.
SpecLoopFair == InitLoop /\ [][NextLoop]_vars /\ WF_pc(Proceed)

----------------------------------------------------------------------------
(* Properties *)

\* s is a zero-padded "HH:MM" time of day
IsHHMM(s) ==
    /\ Len(s) = 5
    /\ s[3] = 58
    /\ \A i \in {1, 2, 4, 5} : s[i] \in 48..57
    /\ (s[1] - 48) * 10 + (s[2] - 48) <= 23
    /\ (s[4] - 48) * 10 + (s[5] - 48) <= 59

\* the minute of the day that a zero-padded "HH:MM" names
MinuteOfDay(s) ==
    ((s[1] - 48) * 10 + (s[2] - 48)) * 60 + (s[4] - 48) * 10 + (s[5] - 48)

\* a <= b in the lexicographic order of strings
LexLeq(a, b) ==
    \/ /\ Len(a) <= Len(b)
       /\ \A i \in 1..Len(a) : a[i] = b[i]
    \/ \E k \in 1..Len(a) :
          /\ k <= Len(b)
          /\ a[k] < b[k]
          /\ \A i \in 1..(k - 1) : a[i] = b[i]

\* the windows of a returned schedule that belong to train number tn
WindowsOf(schedule, tn) == {k \in 1..Len(schedule) : schedule[k].train_number = tn}

\* C1: calculate_gate_closure_schedule emits, for every train record, exactly one
\* closure window; its closure_start is the arrival time of day minus 5 minutes,
\* its closure_end the arrival time of day plus gate_closure_duration minutes
\* (both as "HH:MM", wrapping at midnight), and its duration_minutes is
\* gate_closure_duration + 5; arrival 14:30 with duration 8 gives 14:25, 14:38, 13.
C1_ClosureWindow ==
    ret.op = "calculate_gate_closure_schedule" =>
        /\ ret.ok
        /\ Len(ret.value) = Len(sample_trains)
        /\ \A i \in 1..Len(sample_trains) :
              LET train == sample_trains[i]
                  ws    == WindowsOf(ret.value, train.train_number)
              IN  /\ Cardinality(ws) = 1
                  /\ \A k \in ws :
                        LET w == ret.value[k]
                        IN  /\ IsHHMM(w.closure_start)
                            /\ IsHHMM(w.closure_end)
                            /\ MinuteOfDay(w.closure_start)
                                   = (MinuteOfDay(train.arrival_time) - 5) % 1440
                            /\ MinuteOfDay(w.closure_end)
                                   = (MinuteOfDay(train.arrival_time)
                                          + train.gate_closure_duration) % 1440
                            /\ w.duration_minutes = train.gate_closure_duration + 5
                            /\ (train.arrival_time = <<49, 52, 58, 51, 48>>
                                    /\ train.gate_closure_duration = 8)
                                  => /\ w.closure_start = <<49, 52, 58, 50, 53>>
                                     /\ w.closure_end = <<49, 52, 58, 51, 56>>
                                     /\ w.duration_minutes = 13

\* a schedule was returned for a 14:30 arrival with duration 8 and for an
\* arrival whose closure starts before midnight
C1_Witness ==
    /\ ret.op = "calculate_gate_closure_schedule"
    /\ \E i, j \in 1..Len(sample_trains) :
          /\ sample_trains[i].arrival_time = <<49, 52, 58, 51, 48>>
          /\ sample_trains[i].gate_closure_duration = 8
          /\ sample_trains[j].arrival_time = <<48, 48, 58, 48, 51>>

\* C2: the list returned by calculate_gate_closure_schedule is sorted
\* non-decreasing by the closure_start string
C2_SortedByClosureStart ==
    ret.op = "calculate_gate_closure_schedule" =>
        \A i, j \in 1..Len(ret.value) :
            i < j => LexLeq(ret.value[i].closure_start, ret.value[j].closure_start)

\* a schedule of two windows with different starts was returned in an order that
\* is not the order of the train records
C2_Witness ==
    /\ ret.op = "calculate_gate_closure_schedule"
    /\ Len(ret.value) = 2
    /\ ret.value[1].train_number = sample_trains[2].train_number
    /\ ret.value[1].closure_start # ret.value[2].closure_start

\* C3: after every optimize_routes call on a non-empty list, exactly one route
\* of the returned list is recommended, and it has the least
\* additional_time_minutes of the returned routes; also after repeated calls.
C3_OneRecommendedMinimum ==
    (ret.op = "optimize_routes" /\ Len(ret.value) > 0) =>
        /\ Cardinality({k \in 1..Len(ret.value) : ret.value[k].recommended}) = 1
        /\ \A k \in 1..Len(ret.value) :
              ret.value[k].recommended =>
                  \A j \in 1..Len(ret.value) :
                      ret.value[k].additional_time_minutes
                          <= ret.value[j].additional_time_minutes

\* a repeated call returned two routes of different times, and the recommended
\* one is not the route that started as recommended
C3_Witness ==
    /\ ret.op = "optimize_routes"
    /\ calls >= 2
    /\ Len(ret.value) = 2
    /\ ret.value[1].additional_time_minutes < ret.value[2].additional_time_minutes
    /\ alternative_routes[1].recommended

\* C4: no call changes the additional_time_minutes or the traffic_level of a
\* route of self.alternative_routes.
C4_CanonicalRoutesKept ==
    [][\A i \in 1..Len(alternative_routes) :
          /\ alternative_routes'[i].additional_time_minutes
                 = alternative_routes[i].additional_time_minutes
          /\ alternative_routes'[i].traffic_level
                 = alternative_routes[i].traffic_level]_vars

\* the absolute instant at which the closure of a train starts: its arrival on
\* the evaluation date (day 0) minus 5 minutes, in seconds
ClosureStartInstant(train) == (MinuteOfDay(train.arrival_time) - 5) * 60

\* the keys of a returned dict
Keys(d) == {d[i].key : i \in 1..Len(d)}

\* C5: a train is in the output of predict_wait_times exactly when its
\* closure_start instant is strictly after now.
C5_UpcomingExactly ==
    ret.op = "predict_wait_times" =>
        \A i \in 1..Len(sample_trains) :
            (sample_trains[i].train_number \in Keys(ret.value))
                <=> (ClosureStartInstant(sample_trains[i]) > ret.now)

\* C5, for the arrivals from 00:05 on (the closure starts on the evaluation
\* date): a train is in the output exactly when its closure_start instant is
\* strictly after now.
C5_UpcomingExactlySameDay ==
    ret.op = "predict_wait_times" =>
        \A i \in 1..Len(sample_trains) :
            MinuteOfDay(sample_trains[i].arrival_time) >= 5 =>
                ((sample_trains[i].train_number \in Keys(ret.value))
                    <=> (ClosureStartInstant(sample_trains[i]) > ret.now))

\* the 4-branch rule of the wait recommendation, first match wins
WaitRule(m, d) ==
    CASE m <= 2 -> "STOP - Gate closing very soon"
      [] m > 2 /\ m <= 5 -> "CAUTION - Consider alternative route"
      [] m > 5 /\ d > 10 -> "PLAN - Long closure expected, use alternative route"
      [] m > 5 /\ d <= 10 -> "PROCEED - Sufficient time to cross"

\* C6: the recommended_action of a wait prediction, and of a call of the helper
\* on its own, is the 4-branch rule applied to (minutes_until_closure,
\* duration_minutes); (2,20) STOP, (4,20) CAUTION, (8,15) PLAN, (8,5) PROCEED.
C6_RecommendedAction ==
    /\ ret.op = "predict_wait_times" =>
          \A i \in 1..Len(ret.value) :
              ret.value[i].value.recommended_action
                  = WaitRule(ret.value[i].value.minutes_until_closure,
                             ret.value[i].value.closure_duration)
    /\ ret.op = "_get_wait_recommendation" =>
          /\ ret.value.recommended_action
                 = WaitRule(ret.value.minutes_until, ret.value.duration)
          /\ (ret.value.minutes_until = 2 /\ ret.value.duration = 20)
                => ret.value.recommended_action = "STOP - Gate closing very soon"
          /\ (ret.value.minutes_until = 4 /\ ret.value.duration = 20)
                => ret.value.recommended_action = "CAUTION - Consider alternative route"
          /\ (ret.value.minutes_until = 8 /\ ret.value.duration = 15)
                => ret.value.recommended_action
                       = "PLAN - Long closure expected, use alternative route"
          /\ (ret.value.minutes_until = 8 /\ ret.value.duration = 5)
                => ret.value.recommended_action = "PROCEED - Sufficient time to cross"

\* a prediction was returned with a closure 2 minutes away (STOP at the
\* threshold) and another one further away
C6_Witness ==
    /\ ret.op = "predict_wait_times"
    /\ \E i, j \in 1..Len(ret.value) :
          /\ ret.value[i].value.minutes_until_closure = 2
          /\ ret.value[i].value.recommended_action = "STOP - Gate closing very soon"
          /\ ret.value[j].value.minutes_until_closure > 5

\* C7: for every hour 0..23 the traffic intensity is high in {7,8,9} and
\* {17,18,19}, medium in {10..16} and {20,21}, and low otherwise; hour 19 is high.
C7_TrafficIntensity ==
    ret.op = "analyze_traffic_patterns" =>
        LET hour == ret.now \div 3600
        IN  /\ hour \in 0..23
            /\ ret.value.current_conditions.traffic_intensity
                   = IF hour \in {7, 8, 9, 17, 18, 19} THEN "high"
                     ELSE IF hour \in (10..16) \cup {20, 21} THEN "medium"
                     ELSE "low"
            /\ hour = 8 => ret.value.current_conditions.traffic_intensity = "high"
            /\ hour = 12 => ret.value.current_conditions.traffic_intensity = "medium"
            /\ hour = 2 => ret.value.current_conditions.traffic_intensity = "low"

\* an analysis was returned at hour 19, where both bands of the code match
C7_Witness ==
    /\ ret.op = "analyze_traffic_patterns"
    /\ ret.now \div 3600 = 19
    /\ ret.value.current_conditions.traffic_intensity = "high"

\* the alerts of a returned list that have the given type
AlertsOfType(alerts, type) == {k \in 1..Len(alerts) : alerts[k].type = type}

\* the place of train number tn in self.sample_trains
TrainIndex(tn) == CHOOSE i \in 1..Len(sample_trains) : sample_trains[i].train_number = tn

\* C8: generate_alerts emits exactly one delay_alert, with priority high and the
\* train's number, for each train with status delayed and delay_minutes > 10,
\* and no delay_alert for any other train.
C8_DelayAlerts ==
    ret.op = "generate_alerts" =>
        /\ \A i \in 1..Len(sample_trains) :
              LET train == sample_trains[i]
                  hits  == {k \in AlertsOfType(ret.value, "delay_alert") :
                               ret.value[k].train_number = train.train_number}
              IN  /\ Cardinality(hits)
                         = IF train.status = "delayed" /\ train.delay_minutes > 10
                           THEN 1 ELSE 0
                  /\ \A k \in hits : ret.value[k].priority = "high"
        /\ \A k \in AlertsOfType(ret.value, "delay_alert") :
              \E i \in 1..Len(sample_trains) :
                  ret.value[k].train_number = sample_trains[i].train_number

\* alerts were returned for a train delayed by 15 minutes next to a train
\* delayed by exactly 10 minutes
C8_Witness ==
    /\ ret.op = "generate_alerts"
    /\ \E i, j \in 1..Len(sample_trains) :
          /\ sample_trains[i].status = "delayed" /\ sample_trains[i].delay_minutes = 15
          /\ sample_trains[j].status = "delayed" /\ sample_trains[j].delay_minutes = 10
    /\ AlertsOfType(ret.value, "delay_alert") # {}

\* C9: generate_alerts emits exactly one long_closure_alert, with priority
\* medium, for each closure window with duration_minutes > 10 (a train with
\* gate_closure_duration > 5), and none for the other windows, whatever delay or
\* traffic alerts there are.
C9_LongClosureAlerts ==
    ret.op = "generate_alerts" =>
        /\ \A i \in 1..Len(sample_trains) :
              LET train == sample_trains[i]
                  hits  == {k \in AlertsOfType(ret.value, "long_closure_alert") :
                               ret.value[k].message[4] = train.train_number}
              IN  /\ Cardinality(hits)
                         = IF train.gate_closure_duration > 5 THEN 1 ELSE 0
                  /\ \A k \in hits :
                        /\ ret.value[k].priority = "medium"
                        /\ ret.value[k].message[2] = train.gate_closure_duration + 5
                        /\ MinuteOfDay(ret.value[k].closure_start)
                               = (MinuteOfDay(train.arrival_time) - 5) % 1440
        /\ \A k \in AlertsOfType(ret.value, "long_closure_alert") :
              \E i \in 1..Len(sample_trains) :
                  ret.value[k].message[4] = sample_trains[i].train_number

\* alerts were returned for a window of 13 minutes next to a window of exactly
\* 10 minutes, with no delay alert and no traffic alert in the list
C9_Witness ==
    /\ ret.op = "generate_alerts"
    /\ \E i, j \in 1..Len(sample_trains) :
          /\ sample_trains[i].gate_closure_duration = 8
          /\ sample_trains[j].gate_closure_duration = 5
    /\ AlertsOfType(ret.value, "long_closure_alert") # {}
    /\ AlertsOfType(ret.value, "delay_alert") = {}
    /\ AlertsOfType(ret.value, "traffic_alert") = {}

\* C10: the returned list holds the delay alerts in the order of the train
\* records, then the long-closure alerts in the order of the closure schedule
\* (by closure_start string, equal starts in the order of the records), then the
\* traffic alerts; there is one traffic_alert, of priority medium, when the
\* intensity of the current hour is high, and none otherwise.
C10_AlertOrder ==
    ret.op = "generate_alerts" =>
        LET a    == ret.value
            D    == AlertsOfType(a, "delay_alert")
            L    == AlertsOfType(a, "long_closure_alert")
            T    == AlertsOfType(a, "traffic_alert")
            hour == ret.now \div 3600
        IN  /\ D \cup L \cup T = 1..Len(a)
            /\ \A k \in D : \A l \in L \cup T : k < l
            /\ \A l \in L : \A m \in T : l < m
            /\ \A k1, k2 \in D :
                  k1 < k2 => TrainIndex(a[k1].train_number) < TrainIndex(a[k2].train_number)
            /\ \A l1, l2 \in L :
                  l1 < l2 =>
                      /\ LexLeq(a[l1].closure_start, a[l2].closure_start)
                      /\ a[l1].closure_start = a[l2].closure_start
                            => TrainIndex(a[l1].message[4]) < TrainIndex(a[l2].message[4])
            /\ Cardinality(T) = IF hour \in {7, 8, 9, 17, 18, 19} THEN 1 ELSE 0
            /\ \A m \in T : a[m].priority = "medium"

\* a list with a delay alert, a traffic alert and two long-closure alerts that
\* stand in the opposite order of their train records was returned
C10_Witness ==
    /\ ret.op = "generate_alerts"
    /\ AlertsOfType(ret.value, "delay_alert") # {}
    /\ AlertsOfType(ret.value, "traffic_alert") # {}
    /\ \E l1, l2 \in AlertsOfType(ret.value, "long_closure_alert") :
          /\ l1 < l2
          /\ TrainIndex(ret.value[l1].message[4]) > TrainIndex(ret.value[l2].message[4])

\* the last sync_with_backend call logged a failure of the write
WriteFailed == sync_log # NoLog /\ sync_log[1] = "ERROR" /\ sync_log[3] = "OSError"

\* C11: a sync_with_backend call always returns to its caller (no exception
\* leaves it); it returns False when a stage or the write failed, and it returns
\* True only when processed_data.json holds the complete data of this call.
C11_SyncReportsFailure ==
    ret.op = "sync_with_backend" =>
        /\ ret.ok
        /\ ret.value \in BOOLEAN
        /\ sync_log # NoLog
        /\ sync_log[1] = "ERROR" => ret.value = FALSE
        /\ schedule_raises(sample_trains) => ret.value = FALSE
        /\ ret.value = TRUE =>
              /\ sync_log[1] = "INFO"
              /\ snapshot.state = "complete"
              /\ snapshot.data.timestamp = ret.now

\* a second call returned False after json.dump had failed
C11_Witness ==
    /\ ret.op = "sync_with_backend"
    /\ ret.value = FALSE
    /\ WriteFailed
    /\ snapshot.state = "partial"
    /\ calls >= 2

\* C12: in the loop, after a sync whose write failed, is_running is still true
\* while the iteration goes on, and unless Ctrl+C arrives the loop comes to the
\* next sync_with_backend call, which gets to its write again (the next route
\* pass is counted); this for the first failure and for every later one.
C12_WriteFailureKeepsLooping ==
    /\ []((pc \in {"alerts", "sleep", "retry"} /\ WriteFailed) => is_running)
    /\ \A n \in 1..(MaxCalls - 1) :
          (pc = "alerts" /\ WriteFailed /\ calls = n)
              ~> (calls > n \/ pc \in {"interrupt", "raised"})

\* the loop stands at the sync_with_backend call again, after two passes whose
\* last write failed
C12_Witness ==
    /\ pc = "sync"
    /\ is_running
    /\ WriteFailed
    /\ calls >= 2

\* C13: in an iteration of the loop whose write failed, the sleep that comes
\* before the next iteration is the 5-second one, not the interval.
C13_BackoffAfterWriteFailure ==
    (WriteFailed /\ pc \in {"sleep", "retry"}) => delay = 5

\* start_processing has received the stop signal, or has been left
Stopping ==
    \/ pc \in {"interrupt", "returned", "raised"}
    \/ pc = "while" /\ ~is_running

\* C19: whenever start_processing has been left, by its return or by an
\* exception, is_running is false.
C19_StoppedMeansNotRunning ==
    pc \in {"returned", "raised"} => ~is_running

\* C19, the part about what follows the stop signal: once Ctrl+C has been
\* received, no statement of the pipeline runs again: no route pass, no write
\* of processed_data.json, no alert generation, no sleep.
C19_NothingAfterStop ==
    [][Stopping =>
          /\ snapshot' = snapshot
          /\ calls' = calls
          /\ alternative_routes' = alternative_routes
          /\ pc' \notin {"sync", "alerts", "sleep", "retry"}]_vars

\* C14: the list that calculate_gate_closure_schedule produces holds the closure
\* window of every train record whose arrival_time is a well-formed "HH:MM",
\* whatever the other records of the batch are.
C14_OtherRecordsKept ==
    ret.op = "calculate_gate_closure_schedule" =>
        \A i \in 1..Len(sample_trains) :
            IsHHMM(sample_trains[i].arrival_time) =>
                \E k \in 1..Len(ret.value) :
                    /\ ret.value[k].train_number = sample_trains[i].train_number
                    /\ MinuteOfDay(ret.value[k].closure_start)
                           = (MinuteOfDay(sample_trains[i].arrival_time) - 5) % 1440

\* the absolute closure_start instant of the window at place k of a returned
\* schedule: that of the train record the window was made from
WindowInstant(schedule, k) ==
    ClosureStartInstant(sample_trains[TrainIndex(schedule[k].train_number)])

\* the windows of a returned schedule stand in the order of their absolute
\* closure_start instants
Chronological(schedule) ==
    \A i, j \in 1..Len(schedule) :
        i < j => WindowInstant(schedule, i) <= WindowInstant(schedule, j)

\* C15: for train records whose arrival times are times of the evaluation date,
\* the order of the returned schedule is the chronological order of the
\* windows' absolute closure_start instants.
C15_ChronologicalOrder ==
    ret.op = "calculate_gate_closure_schedule" => Chronological(ret.value)

\* C15, for the arrivals from 00:05 on (the closure starts on the evaluation
\* date): the order of the returned schedule is the chronological order of the
\* windows' absolute closure_start instants.
C15_ChronologicalOrderSameDay ==
    (/\ ret.op = "calculate_gate_closure_schedule"
     /\ \A i \in 1..Len(sample_trains) :
           MinuteOfDay(sample_trains[i].arrival_time) >= 5)
        => Chronological(ret.value)

\* one step up of the traffic level
Escalated(level) ==
    CASE level = "low" -> "medium"
      [] level = "medium" -> "high"
      [] level = "high" -> "high"

\* the multipliers of a traffic level, in tenths: low [0.8, 1.1), medium
\* [1.0, 1.3), high [1.2, 1.8)
MultiplierRange(level) ==
    CASE level = "low" -> 8..10
      [] level = "medium" -> 10..12
      [] level = "high" -> 12..17

\* C16: in one optimize_routes pass, every route's traffic_level goes up by
\* exactly one step when the hour is in {7,8,9} or {17,18,19} and is unchanged
\* otherwise, and its additional_time_minutes becomes the integer part of the old
\* value times a multiplier of the range of the level it had before the pass.
C16_EscalationAfterMultiplier ==
    [][(ret'.op = "optimize_routes" /\ calls' = calls + 1) =>
          \A i \in 1..Len(alternative_routes) :
              LET before == alternative_routes[i]
                  after  == alternative_routes'[i]
                  hour   == ret'.now \div 3600
              IN  /\ after.traffic_level
                         = IF hour \in {7, 8, 9, 17, 18, 19}
                           THEN Escalated(before.traffic_level)
                           ELSE before.traffic_level
                  /\ after.additional_time_minutes
                         \in {(before.additional_time_minutes * m) \div 10 :
                                 m \in MultiplierRange(before.traffic_level)}]_vars

\* a rush-hour pass was the first one and left a route at medium with 6
\* minutes: before the pass it was at low with 8 minutes
C16_Witness ==
    /\ ret.op = "optimize_routes"
    /\ calls = 1
    /\ ret.now \div 3600 \in {8, 19}
    /\ \E i \in 1..Len(alternative_routes) :
          /\ alternative_routes[i].traffic_level = "medium"
          /\ alternative_routes[i].additional_time_minutes = 6

\* C17: a call of calculate_gate_closure_schedule, predict_wait_times,
\* analyze_traffic_patterns or generate_alerts leaves every train record, every
\* route, the order of both lists and is_running as they were, whatever calls
\* came before it.
C17_DerivationsKeepState ==
    [][ret'.op \in {"calculate_gate_closure_schedule", "predict_wait_times",
                    "analyze_traffic_patterns", "generate_alerts"} =>
          /\ sample_trains' = sample_trains
          /\ alternative_routes' = alternative_routes
          /\ is_running' = is_running]_vars

\* generate_alerts, which runs the schedule and the traffic analysis inside, has
\* returned alerts, and the processor holds the data of __init__
C17_Witness ==
    /\ ret.op = "generate_alerts"
    /\ Len(ret.value) >= 2
    /\ sample_trains = SampleTrains
    /\ alternative_routes = InitialRoutes
    /\ ~is_running

\* the five bands of hours of the travel-window recommendation, with their texts
WindowBands ==
    << [hours |-> 0..6,   text |-> "07:00-07:30 (Before morning rush)"],
       [hours |-> 7..9,   text |-> "10:00-11:00 (After morning rush)"],
       [hours |-> 10..16, text |-> "Now - Good time to travel"],
       [hours |-> 17..19, text |-> "20:00-21:00 (After evening rush)"],
       [hours |-> 20..23, text |-> "Now - Light traffic period"] >>

\* C18: the recommended travel window of every analysis is the text of the one
\* band, of five, that holds the current hour: below 7, 7..9, 10..16, 17..19,
\* 20..23; each hour 0..23 lies in exactly one band.
C18_RecommendedWindowBands ==
    ret.op = "analyze_traffic_patterns" =>
        LET hour == ret.now \div 3600
            applies == {b \in 1..Len(WindowBands) : hour \in WindowBands[b].hours}
        IN  /\ hour \in 0..23
            /\ Cardinality(applies) = 1
            /\ \A b \in applies :
                  ret.value.predictions.recommended_travel_window = WindowBands[b].text

\* an analysis was returned at hour 7, the first hour of the second band
C18_Witness ==
    /\ ret.op = "analyze_traffic_patterns"
    /\ ret.now \div 3600 = 7
    /\ ret.value.predictions.recommended_travel_window = "10:00-11:00 (After morning rush)"

\* the traffic intensity of an hour of the day, by the bands
IntensityOfHour(hour) ==
    IF hour \in {7, 8, 9, 17, 18, 19} THEN "high"
    ELSE IF hour \in (10..16) \cup {20, 21} THEN "medium"
    ELSE "low"

\* C20: the next_hour_traffic of every analysis is the traffic intensity of the
\* hour (current hour + 1) mod 24; at hour 23 it is the intensity of hour 0.
C20_NextHourTraffic ==
    ret.op = "analyze_traffic_patterns" =>
        LET hour == ret.now \div 3600
        IN  /\ hour \in 0..23
            /\ ret.value.predictions.next_hour_traffic = IntensityOfHour((hour + 1) % 24)
            /\ hour = 23 => ret.value.predictions.next_hour_traffic = IntensityOfHour(0)

\* an analysis was returned at hour 23, where the classifier was given 24
C20_Witness ==
    /\ ret.op = "analyze_traffic_patterns"
    /\ ret.now \div 3600 = 23
    /\ ret.value.predictions.next_hour_traffic = "low"

====
